---- MODULE Spec2Model ----
(***************************************************************************)
(* Model of processors.py: a record store of processors (identifier ->    *)
(* attribute record) that is prefilled from a CSV file, updated by one    *)
(* concurrent task per identifier (staleness check, fetch, merge), then   *)
(* printed as a table and, if anything changed, written back to the CSV   *)
(* file.                                                                   *)
(*                                                                         *)
(* Strings are sequences of one-character strings, so that str.strip,     *)
(* the csv writer, the universal-newline text reader and the csv reader   *)
(* are modelled character by character.                                   *)
(***************************************************************************)
EXTENDS Integers, Sequences, FiniteSets, TLC

----------------------------------------------------------------------------
(* Bounds of the model *)

\* last day of the modelled calendar (date.today() never exceeds it)
MaxDay == 9

\* number of midnights that pass while the tasks of one run are running
MaxMidnights == 1

\* number of rows after the header in the tables prefill_with_csv is applied to
MaxRows == 3

----------------------------------------------------------------------------
(* Characters and strings *)

CR == "\r"
LF == "\n"
QUOTE == "\""
COMMA == ","
SPACE == " "

Whitespace == {SPACE, CR, LF, "\t"}

Digits == <<"0", "1", "2", "3", "4", "5", "6", "7", "8", "9">>

\* str.strip(): drop leading and trailing whitespace
RECURSIVE LStrip(_)
LStrip(s) ==
    IF s # <<>> /\ Head(s) \in Whitespace THEN LStrip(Tail(s)) ELSE s

RECURSIVE RStrip(_)
RStrip(s) ==
    IF s # <<>> /\ s[Len(s)] \in Whitespace
    THEN RStrip(SubSeq(s, 1, Len(s) - 1))
    ELSE s

Strip(s) == RStrip(LStrip(s))

\* s[n:] of Python
DropPrefix(s, n) == SubSeq(s, n + 1, Len(s))

\* mapping update d[k] = v of a Python dict
Put(d, k, v) == [x \in (DOMAIN d) \cup {k} |-> IF x = k THEN v ELSE d[x]]

----------------------------------------------------------------------------
(* Configuration supplied by main() *)

Name == <<"N", "a", "m", "e">>
SingleThread == <<"S", "i", "n", "g", "l", "e", " ", "T", "h", "r", "e", "a", "d">>
Link == <<"L", "i", "n", "k">>
Updated == <<"U", "p", "d", "a", "t", "e", "d">>

\* keys of the attributes registry, in insertion order
Attributes == <<Name, SingleThread>>

\* link_base (the host part is abbreviated)
LinkBase == <<"i", "d", "=">>

\* the seeded processors, in insertion order of the dict
IdSeq == << <<"1">>, <<"2">> >>
Ids == {IdSeq[n] : n \in 1..Len(IdSeq)}

Seed ==
    [i \in Ids |->
        [k \in {Name} |-> IF i = <<"1">> THEN <<"a">> ELSE <<"b">>]]

\* the placeholder stored when an extractor does not match
Placeholder == <<"-">>

\* timedelta(days=7)
StaleDays == 7

----------------------------------------------------------------------------
(* Dates: date.today() is a day number; the ISO text of a day is its      *)
(* two-digit day number (year and month are constant and left out).       *)

\* today.strftime("%Y-%m-%d")
DateStr(d) == <<Digits[(d \div 10) + 1], Digits[(d % 10) + 1]>>

DigitVal(c) == CHOOSE n \in 0..9 : Digits[n + 1] = c

IsDigit(c) == \E n \in 1..10 : Digits[n] = c

\* date.fromisoformat accepts exactly the well-formed texts
IsIsoDate(s) == Len(s) = 2 /\ IsDigit(s[1]) /\ IsDigit(s[2])

\* date.fromisoformat(s) for a well-formed s
FromIso(s) == 10 * DigitVal(s[1]) + DigitVal(s[2])

----------------------------------------------------------------------------
(* csv.DictWriter with the default (excel) dialect *)

\* a field is quoted when it holds the delimiter, the quote character or a
\* character of the line terminator
NeedsQuote(f) == \E n \in 1..Len(f) : f[n] \in {COMMA, QUOTE, CR, LF}

RECURSIVE DoubleQuotes(_)
DoubleQuotes(f) ==
    IF f = <<>> THEN <<>>
    ELSE (IF Head(f) = QUOTE THEN <<QUOTE, QUOTE>> ELSE <<Head(f)>>)
         \o DoubleQuotes(Tail(f))

WriteField(f) ==
    IF NeedsQuote(f) THEN <<QUOTE>> \o DoubleQuotes(f) \o <<QUOTE>> ELSE f

RECURSIVE JoinFields(_)
JoinFields(fields) ==
    IF fields = <<>> THEN <<>>
    ELSE IF Len(fields) = 1 THEN WriteField(fields[1])
    ELSE WriteField(fields[1]) \o <<COMMA>> \o JoinFields(Tail(fields))

\* writer.writerow: the fields joined by commas, ended by "\r\n"; a row of
\* one empty field is written as a pair of quotes
WriteRow(fields) ==
    (IF fields = << <<>> >> THEN <<QUOTE, QUOTE>> ELSE JoinFields(fields))
    \o <<CR, LF>>

\* DictWriter._dict_to_list: the values in header order, "" for a missing key
DictToList(header, d) ==
    [n \in 1..Len(header) |->
        IF header[n] \in DOMAIN d THEN d[header[n]] ELSE <<>>]

\* DictWriter raises ValueError for a key that is not a field name
HasExtraKeys(header, d) ==
    \E k \in DOMAIN d : \A n \in 1..Len(header) : header[n] # k

\* write_csv: the text of the file after the call, and whether the call
\* returned (ok) or raised ValueError at the first record with an extra key,
\* leaving the header and the rows written so far in the file
RECURSIVE WriteRows(_, _, _)
WriteRows(header, ids, processors) ==
    IF ids = <<>> THEN [text |-> <<>>, ok |-> TRUE]
    ELSE IF HasExtraKeys(header, processors[Head(ids)])
         THEN [text |-> <<>>, ok |-> FALSE]
         ELSE LET rest == WriteRows(header, Tail(ids), processors)
              IN  [text |-> WriteRow(DictToList(header, processors[Head(ids)]))
                            \o rest.text,
                   ok |-> rest.ok]

write_csv(header, ids, processors) ==
    LET rows == WriteRows(header, ids, processors)
    IN  [text |-> WriteRow(header) \o rows.text, ok |-> rows.ok]

----------------------------------------------------------------------------
(* Reading the file: open(my_csv) and csv.reader *)

\* open() without newline="": universal newlines, "\r\n" and "\r" are read
\* as "\n"
Universal(s) ==
    LET numbered == [n \in 1..Len(s) |-> <<n, s[n]>>]
        Kept(x) == ~(x[2] = LF /\ x[1] > 1 /\ s[x[1] - 1] = CR)
        kept == SelectSeq(numbered, Kept)
    IN  [n \in 1..Len(kept) |-> IF kept[n][2] = CR THEN LF ELSE kept[n][2]]

\* csv.reader (excel dialect, not strict) reads a text that holds no "\r"
\* character by character.  Its state p is the parser state st, the field
\* being read, the fields (row) of the record being read and the records
\* (rows) read so far.  A line ends at "\n"; inside a quoted field the "\n"
\* belongs to the field and the record goes on with the next line.
ReaderStates ==
    {"START_RECORD", "START_FIELD", "IN_FIELD", "IN_QUOTED_FIELD",
     "QUOTE_IN_QUOTED_FIELD"}

ReaderStart == [st |-> "START_RECORD", field |-> <<>>, row |-> <<>>, rows |-> <<>>]

EndRecord(p, row) ==
    [st |-> "START_RECORD", field |-> <<>>, row |-> <<>>, rows |-> Append(p.rows, row)]

EndField(p) ==
    [st |-> "START_FIELD", field |-> <<>>, row |-> Append(p.row, p.field), rows |-> p.rows]

AddChar(p, c, st) == [p EXCEPT !.st = st, !.field = Append(@, c)]

ProcessChar(p, c) ==
    CASE p.st = "START_RECORD" ->
           IF c = LF THEN EndRecord(p, <<>>)
           ELSE IF c = QUOTE THEN [p EXCEPT !.st = "IN_QUOTED_FIELD"]
           ELSE IF c = COMMA THEN EndField(p)
           ELSE AddChar(p, c, "IN_FIELD")
      [] p.st = "START_FIELD" ->
           IF c = LF THEN EndRecord(p, Append(p.row, <<>>))
           ELSE IF c = QUOTE THEN [p EXCEPT !.st = "IN_QUOTED_FIELD"]
           ELSE IF c = COMMA THEN EndField(p)
           ELSE AddChar(p, c, "IN_FIELD")
      [] p.st = "IN_FIELD" ->
           IF c = LF THEN EndRecord(p, Append(p.row, p.field))
           ELSE IF c = COMMA THEN EndField(p)
           ELSE AddChar(p, c, "IN_FIELD")
      [] p.st = "IN_QUOTED_FIELD" ->
           IF c = QUOTE THEN [p EXCEPT !.st = "QUOTE_IN_QUOTED_FIELD"]
           ELSE AddChar(p, c, "IN_QUOTED_FIELD")
      [] p.st = "QUOTE_IN_QUOTED_FIELD" ->
           IF c = QUOTE THEN AddChar(p, c, "IN_QUOTED_FIELD")
           ELSE IF c = COMMA THEN EndField(p)
           ELSE IF c = LF THEN EndRecord(p, Append(p.row, p.field))
           ELSE AddChar(p, c, "IN_FIELD")

\* the reader's state after the characters text[lo..hi], from state p
RECURSIVE ProcessChars(_, _, _, _)
ProcessChars(p, text, lo, hi) ==
    IF lo > hi THEN p
    ELSE IF lo = hi THEN ProcessChar(p, text[lo])
    ELSE LET mid == (lo + hi) \div 2
             left == ProcessChars(p, text, lo, mid)
         IN  IF left.st \in ReaderStates
             THEN ProcessChars(left, text, mid + 1, hi)
             ELSE left

\* at the end of the text an unfinished record is returned as it stands
ReadRows(text) ==
    LET p == ProcessChars(ReaderStart, text, 1, Len(text))
    IN  IF p.st = "START_RECORD" THEN p.rows
        ELSE Append(p.rows, Append(p.row, p.field))

\* the rows csv.reader yields for the text of a file
csv_reader(text) == ReadRows(Universal(text))

\* header.index("Link"): 0 when absent (ValueError)
IndexOf(header, k) ==
    IF \E n \in 1..Len(header) : header[n] = k
    THEN CHOOSE n \in 1..Len(header) :
            header[n] = k /\ \A m \in 1..(n - 1) : header[m] # k
    ELSE 0

\* for i, item in enumerate(row): d[header[i]] = item
RECURSIVE CopyRow(_, _, _, _)
CopyRow(d, header, row, n) ==
    IF n > Len(row) THEN d
    ELSE CopyRow(Put(d, header[n], row[n]), header, row, n + 1)

\* a loop that creates a record for a key that is not in processors
RECURSIVE CopyRows_AddUnknown(_, _, _, _, _)
CopyRows_AddUnknown(rows, header, link_index, processors, link_base) ==
    IF rows = <<>> THEN [ok |-> TRUE, processors |-> processors]
    ELSE
      LET row == Head(rows) IN
      IF Len(row) < link_index \/ Len(row) > Len(header)
      THEN [ok |-> FALSE, processors |-> processors]
      ELSE
        LET key == DropPrefix(row[link_index], Len(link_base))
            old == IF key \in DOMAIN processors THEN processors[key] ELSE << >>
        IN  CopyRows_AddUnknown(Tail(rows), header, link_index,
                                Put(processors, key, CopyRow(old, header, row, 1)),
                                link_base)

\* the loop over the rows after the header; ok is FALSE when a row raises
\* IndexError (no Link field, or more fields than the header)
RECURSIVE CopyRows(_, _, _, _, _)
CopyRows(rows, header, link_index, processors, link_base) ==
    IF rows = <<>> THEN [ok |-> TRUE, processors |-> processors]
    ELSE
      LET row == Head(rows) IN
      IF Len(row) < link_index THEN [ok |-> FALSE, processors |-> processors]
      ELSE
        LET key == DropPrefix(row[link_index], Len(link_base)) IN
        IF key \in DOMAIN processors
        THEN IF Len(row) > Len(header)
             THEN [ok |-> FALSE, processors |-> processors]
             ELSE CopyRows(Tail(rows), header, link_index,
                           [processors EXCEPT ![key] = CopyRow(@, header, row, 1)],
                           link_base)
        ELSE CopyRows(Tail(rows), header, link_index, processors, link_base)

\* the value of the file variable when the file does not exist
NoFile == "absent"

\* prefill_with_csv: ok is FALSE when the call raises (an empty file, no
\* "Link" column, a malformed row); an absent file is an IOError, which is
\* caught and leaves the processors as they are
prefill_with_csv(my_csv, processors, link_base) ==
    IF my_csv = NoFile THEN [ok |-> TRUE, processors |-> processors]
    ELSE
      LET rows == csv_reader(my_csv) IN
      IF rows = <<>> THEN [ok |-> FALSE, processors |-> processors]
      ELSE
        LET header == Head(rows)
            link_index == IndexOf(header, Link)
        IN  IF link_index = 0 THEN [ok |-> FALSE, processors |-> processors]
            ELSE CopyRows(Tail(rows), header, link_index, processors, link_base)

----------------------------------------------------------------------------
(* Pages and extractors *)

\* A page is modelled by what the registered extractors find on it: the
\* function from the attributes whose pattern matches to the text captured
\* (before strip); an attribute outside its domain raises IndexError.  The
\* pattern of the name ("[^@<]*") also matches the empty text of an empty
\* cpuname element.
Pages ==
    { (Name :> <<"a", SPACE>>) @@ (SingleThread :> <<"2">>),
      (Name :> <<",", QUOTE, LF, "b">>),
      (SingleThread :> <<SPACE, "3">>),
      (Name :> <<"a", CR, "b">>) @@ (SingleThread :> <<"2">>),
      << >>,
      (Name :> << >>) }

\* what fetch_html returns: None after a ClientPayloadError, or the text of
\* the response, which may be empty
None == [kind |-> "None"]
EmptyText == [kind |-> "text", empty |-> TRUE]
Html(page) == [kind |-> "text", empty |-> FALSE, page |-> page]

Responses == {None, EmptyText} \cup {Html(page) : page \in Pages}

\* "not response_text" is false
IsContent(response) == response.kind = "text" /\ ~response.empty

\* the value update_dict stores for one key: method(response_text).strip(),
\* or the placeholder on IndexError
Extracted(key, page) ==
    IF key \in DOMAIN page THEN Strip(page[key]) ELSE Placeholder

\* a loop that ends at the first extractor that does not match
RECURSIVE ExtractAll_Break(_, _, _)
ExtractAll_Break(processor, keys, page) ==
    IF keys = <<>> THEN processor
    ELSE IF Head(keys) \notin DOMAIN page
         THEN Put(processor, Head(keys), Placeholder)
         ELSE ExtractAll_Break(Put(processor, Head(keys), Extracted(Head(keys), page)),
                               Tail(keys), page)

\* the loop over self.attributes.items()
RECURSIVE ExtractAll(_, _, _)
ExtractAll(processor, keys, page) ==
    IF keys = <<>> THEN processor
    ELSE ExtractAll(Put(processor, Head(keys), Extracted(Head(keys), page)),
                    Tail(keys), page)

\* an update_dict that gives up when the name of the page is not the stored one
update_dict_NameCheck(processor, response, day) ==
    IF ~IsContent(response) THEN processor
    ELSE IF Extracted(Name, response.page) # processor[Name] THEN processor
    ELSE Put(ExtractAll(processor, Attributes, response.page), Updated, DateStr(day))

\* update_dict: the processor after the call made on day `day`
update_dict(processor, response, day) ==
    IF ~IsContent(response) THEN processor
    ELSE Put(ExtractAll(processor, Attributes, response.page), Updated, DateStr(day))

\* a staleness check that forgets the 7-day window
IsFresh_NoWindow(processor, day) ==
    Updated \in DOMAIN processor /\ FromIso(processor[Updated]) > day

\* a staleness check that takes a processor without a date for a fresh one
IsFresh_NoDate(processor, day) ==
    Updated \notin DOMAIN processor \/ FromIso(processor[Updated]) + StaleDays > day

\* a staleness check that still takes a date of exactly 7 days ago for fresh
IsFresh_Inclusive(processor, day) ==
    Updated \in DOMAIN processor /\ FromIso(processor[Updated]) + StaleDays >= day

\* the condition of the staleness check in update_one, for a well-formed date
IsFresh(processor, day) ==
    Updated \in DOMAIN processor /\ FromIso(processor[Updated]) + StaleDays > day

\* date.fromisoformat raises ValueError in the staleness check
BadDate(processor) ==
    Updated \in DOMAIN processor /\ ~IsIsoDate(processor[Updated])

\* the fieldnames bulk_crawl_and_write passes to write_csv
Header == Attributes \o <<Link, Updated>>

\* a print_table that prints a blank for a key a processor lacks
Printable_Blank(header, procs) == \A i \in DOMAIN procs : header # <<>>

\* print_table raises KeyError when a processor lacks a key of the header
Printable(header, procs) ==
    \A i \in DOMAIN procs : \A n \in 1..Len(header) : header[n] \in DOMAIN procs[i]

----------------------------------------------------------------------------
(* State *)

VARIABLES
    file,               \* the text of processors.csv, or NoFile
    today,              \* date.today()
    main,               \* where the main coroutine is
    processors,         \* CPUList.processors
    changed_something,  \* CPUList.changed_something
    task,               \* where the update_one task of each identifier is
    response_text,      \* response_text of each update_one task
    fetch_calls,        \* number of calls of fetch_html for each identifier in this run
    printed,            \* print_table has printed the table in this run
    wrote,              \* write_csv has written the file in this run
    midnights           \* number of midnights passed during gather in this run

vars == <<file, today, main, processors, changed_something, task,
          response_text, fetch_calls, printed, wrote, midnights>>

\* response_text before fetch_html has returned
Unset == [kind |-> "unset"]

\* the state of a process that has just been started
StartOfRun ==
    /\ main = "start"
    /\ processors = Seed
    /\ changed_something = FALSE
    /\ task = [i \in Ids |-> "new"]
    /\ response_text = [i \in Ids |-> Unset]
    /\ fetch_calls = [i \in Ids |-> 0]
    /\ printed = FALSE
    /\ wrote = FALSE
    /\ midnights = 0

Init ==
    /\ file = NoFile
    /\ today = 1
    /\ StartOfRun

----------------------------------------------------------------------------
(* Actions *)

\* main(): prefill_with_csv, then CPUList(...) and the start of
\* bulk_crawl_and_write, which creates one update_one coroutine per processor
Prefill ==
    /\ main = "start"
    /\ LET r == prefill_with_csv(file, processors, LinkBase)
       IN  /\ processors' = r.processors
           /\ main' = IF r.ok THEN "gather" ELSE "raised"
    /\ changed_something' = FALSE
    /\ UNCHANGED <<midnights, file, today, task, response_text, fetch_calls, printed, wrote>>

\* every task has run its first step
AllStarted == \A i \in Ids : task[i] # "new"

\* a wait that ends with the first task that returns
AllDone_FirstCompleted == AllStarted /\ \E i \in Ids : task[i] = "done"

\* a wait that takes a task that raised for one that returned
AllDone_ReturnExceptions == \A i \in Ids : task[i] \in {"done", "failed"}

\* every task has returned
AllDone == \A i \in Ids : task[i] = "done"

\* an update_one that stamps the record it skips with the current date
UpdateOne_Restamp(i) ==
    /\ main = "gather"
    /\ task[i] = "new"
    /\ LET processor == Put(processors[i], Link, LinkBase \o i)
       IN  IF BadDate(processor)
           THEN /\ processors' = [processors EXCEPT ![i] = processor]
                /\ task' = [task EXCEPT ![i] = "failed"]
                /\ UNCHANGED fetch_calls
           ELSE IF IsFresh(processor, today)
           THEN /\ processors' = [processors EXCEPT
                                     ![i] = Put(processor, Updated, DateStr(today))]
                /\ task' = [task EXCEPT ![i] = "done"]
                /\ UNCHANGED fetch_calls
           ELSE /\ processors' = [processors EXCEPT ![i] = processor]
                /\ task' = [task EXCEPT ![i] = "fetching"]
                /\ fetch_calls' = [fetch_calls EXCEPT ![i] = @ + 1]
    /\ UNCHANGED <<midnights, file, today, main, changed_something, response_text,
                   printed, wrote>>

\* update_one up to its first suspension: sets Link, makes the staleness
\* check and either returns (skip), raises (malformed date) or calls
\* fetch_html and waits for the response
UpdateOne(i) ==
    /\ main = "gather"
    /\ task[i] = "new"
    /\ LET processor == Put(processors[i], Link, LinkBase \o i)
       IN  /\ processors' = [processors EXCEPT ![i] = processor]
           /\ IF BadDate(processor)
              THEN /\ task' = [task EXCEPT ![i] = "failed"]
                   /\ UNCHANGED fetch_calls
              ELSE IF IsFresh(processor, today)
              THEN /\ task' = [task EXCEPT ![i] = "done"]
                   /\ UNCHANGED fetch_calls
              ELSE /\ task' = [task EXCEPT ![i] = "fetching"]
                   /\ fetch_calls' = [fetch_calls EXCEPT ![i] = @ + 1]
    /\ UNCHANGED <<midnights, file, today, main, changed_something, response_text,
                   printed, wrote>>

\* a task that merges the response into the record of the first identifier
FetchReturns_FirstKey(i) ==
    /\ task[i] = "fetching"
    /\ \E response \in Responses :
          /\ response_text' = [response_text EXCEPT ![i] = response]
          /\ processors' = [processors EXCEPT ![IdSeq[1]] = update_dict(@, response, today)]
          /\ changed_something' = (changed_something \/ IsContent(response))
    /\ task' = [task EXCEPT ![i] = "done"]
    /\ UNCHANGED <<midnights, file, today, main, fetch_calls, printed, wrote>>

\* fetch_html returns (a text or None) and update_one goes on with
\* update_dict, without suspension, and returns
FetchReturns(i) ==
    /\ task[i] = "fetching"
    /\ \E response \in Responses :
          /\ response_text' = [response_text EXCEPT ![i] = response]
          /\ processors' = [processors EXCEPT ![i] = update_dict(@, response, today)]
          /\ changed_something' = (changed_something \/ IsContent(response))
    /\ task' = [task EXCEPT ![i] = "done"]
    /\ UNCHANGED <<midnights, file, today, main, fetch_calls, printed, wrote>>

\* fetch_html raises: a status that is not a success (raise_for_status) or
\* a connection failure; the exception ends the task
FetchRaises(i) ==
    /\ task[i] = "fetching"
    /\ task' = [task EXCEPT ![i] = "failed"]
    /\ UNCHANGED <<midnights, file, today, main, processors, changed_something,
                   response_text, fetch_calls, printed, wrote>>

\* gather returns once every task has returned
GatherReturns ==
    /\ main = "gather"
    /\ AllDone
    /\ main' = "print_table"
    /\ UNCHANGED <<midnights, file, today, processors, changed_something, task,
                   response_text, fetch_calls, printed, wrote>>

\* gather raises the exception of a failed task.  The tasks are all started
\* in the event-loop iteration that follows the call of gather, the main
\* coroutine is resumed in a later one.
GatherRaises ==
    /\ main = "gather"
    /\ AllStarted
    /\ \E i \in Ids : task[i] = "failed"
    /\ main' = "raised"
    /\ UNCHANGED <<midnights, file, today, processors, changed_something, task,
                   response_text, fetch_calls, printed, wrote>>

\* asyncio.run cancels the tasks still waiting when main() has raised
CancelTasks ==
    /\ main = "raised"
    /\ \E i \in Ids : task[i] = "fetching"
    /\ task' = [i \in Ids |-> IF task[i] = "fetching" THEN "cancelled" ELSE task[i]]
    /\ UNCHANGED <<midnights, file, today, main, processors, changed_something,
                   response_text, fetch_calls, printed, wrote>>

\* print_table(self.attributes.keys(), self.processors)
PrintTable ==
    /\ main = "print_table"
    /\ IF Printable(Attributes, processors)
       THEN printed' = TRUE /\ main' = "write_csv"
       ELSE printed' = printed /\ main' = "raised"
    /\ UNCHANGED <<midnights, file, today, processors, changed_something, task,
                   response_text, fetch_calls, wrote>>

\* a write that does not look at the changed flag
WriteCsv_Always ==
    /\ main = "write_csv"
    /\ LET w == write_csv(Header, IdSeq, processors)
       IN  /\ file' = w.text
           /\ wrote' = w.ok
           /\ main' = IF w.ok THEN "done" ELSE "raised"
    /\ UNCHANGED <<midnights, today, processors, changed_something, task, response_text,
                   fetch_calls, printed>>

\* if self.changed_something: write_csv(...)
WriteCsv ==
    /\ main = "write_csv"
    /\ IF changed_something
       THEN LET w == write_csv(Header, IdSeq, processors)
            IN  /\ file' = w.text
                /\ wrote' = w.ok
                /\ main' = IF w.ok THEN "done" ELSE "raised"
       ELSE /\ main' = "done"
            /\ UNCHANGED <<file, wrote>>
    /\ UNCHANGED <<midnights, today, processors, changed_something, task, response_text,
                   fetch_calls, printed>>

\* the process has ended; the script is started again
NextRun ==
    /\ main \in {"done", "raised"}
    /\ \A i \in Ids : task[i] # "fetching"
    /\ main' = "start"
    /\ processors' = Seed
    /\ changed_something' = FALSE
    /\ task' = [i \in Ids |-> "new"]
    /\ response_text' = [i \in Ids |-> Unset]
    /\ fetch_calls' = [i \in Ids |-> 0]
    /\ printed' = FALSE
    /\ wrote' = FALSE
    /\ midnights' = 0
    /\ UNCHANGED <<file, today>>

\* time passes before the script is started
Wait ==
    /\ main = "start"
    /\ today < MaxDay
    /\ today' = today + 1
    /\ UNCHANGED <<file, main, processors, changed_something, task,
                   response_text, fetch_calls, printed, wrote,
                   midnights>>

\* midnight passes while the tasks run.  The date is read by the tasks only
\* (staleness check and update_dict), so a midnight after gather is left to
\* Wait.
Midnight ==
    /\ main = "gather"
    /\ midnights < MaxMidnights
    /\ today < MaxDay
    /\ today' = today + 1
    /\ midnights' = midnights + 1
    /\ UNCHANGED <<file, main, processors, changed_something, task,
                   response_text, fetch_calls, printed, wrote>>

Next ==
    \/ Prefill
    \/ \E i \in Ids : UpdateOne(i)
    \/ \E i \in Ids : FetchReturns(i)
    \/ \E i \in Ids : FetchRaises(i)
    \/ GatherReturns
    \/ GatherRaises
    \/ CancelTasks
    \/ PrintTable
    \/ WriteCsv
    \/ NextRun
    \/ Wait
    \/ Midnight

Spec == Init /\ [][Next]_vars

TypeOK ==
    /\ main \in {"start", "gather", "print_table", "write_csv", "done", "raised"}
    /\ today \in 1..MaxDay
    /\ \A i \in Ids : task[i] \in {"new", "fetching", "done", "failed", "cancelled"}

----------------------------------------------------------------------------
(* prefill_with_csv on its own: main() up to the crawl, started with any   *)
(* table of a few rows in the file and any of the seeded processors        *)

\* the header rows of the tables: columns in another order than write_csv's,
\* and a header without the "Link" column (a header cut short)
TableHeaders == {<<Name, Link, Updated>>, <<Link, SingleThread>>, <<Name>>}

\* the identifiers of the rows: the seeded ones and one that is not seeded
RowIds == Ids \cup {<<"3">>}

\* the rows under a header: link_base + identifier in the "Link" column and
\* one value in the other columns
TableRows(header) ==
    {[n \in 1..Len(header) |-> IF header[n] = Link THEN LinkBase \o i ELSE v] :
        i \in RowIds, v \in {<<"c">>, <<"0", "5">>}}

\* the sequences of at most n elements of S
RECURSIVE SeqsUpTo(_, _)
SeqsUpTo(S, n) ==
    IF n = 0 THEN {<<>>}
    ELSE LET shorter == SeqsUpTo(S, n - 1)
         IN  shorter \cup {Append(q, x) : q \in shorter, x \in S}

\* the text of the table with this header and these rows, as writerow writes it
RECURSIVE TableText(_)
TableText(rows) ==
    IF rows = <<>> THEN <<>> ELSE WriteRow(Head(rows)) \o TableText(Tail(rows))

\* the texts of the files: an empty one, and every table of at most MaxRows
\* rows
Tables ==
    {<<>>}
    \cup UNION {{TableText(<<header>> \o rows) :
                    rows \in SeqsUpTo(TableRows(header), MaxRows)} :
                header \in TableHeaders}

\* the processors main() seeds: any of the seeded identifiers
SeedStores == {[i \in seeded |-> Seed[i]] : seeded \in SUBSET Ids}

PrefillInit ==
    /\ (file = NoFile \/ file \in Tables)
    /\ today = 1
    /\ main = "start"
    /\ processors \in SeedStores
    /\ changed_something = FALSE
    /\ task = [i \in Ids |-> "new"]
    /\ response_text = [i \in Ids |-> Unset]
    /\ fetch_calls = [i \in Ids |-> 0]
    /\ printed = FALSE
    /\ wrote = FALSE
    /\ midnights = 0

PrefillNext == Prefill

PrefillSpec == PrefillInit /\ [][PrefillNext]_vars

----------------------------------------------------------------------------
(* Properties *)

\* the processors as prefill_with_csv leaves them at the start of the run
\* whose file has not been written yet
Prefilled == prefill_with_csv(file, Seed, LinkBase).processors

\* C1: staleness skip.  fetch_html is called for an identifier only in a
\* step taken from a state where its record has no "Updated" date within 7
\* days of the current date: whenever the record's Updated + 7 days is still
\* in the future when the task runs, no call is made, whatever the other
\* tasks have done.
C1_StalenessSkip ==
    [][\A i \in Ids :
          (/\ Updated \in DOMAIN processors[i]
           /\ IsIsoDate(processors[i][Updated])
           /\ FromIso(processors[i][Updated]) + 7 > today
           /\ main' # "start")
          => fetch_calls'[i] = fetch_calls[i]]_vars

\* a task has skipped a record of an earlier run while the other one fetches
C1_Witness ==
    \E i, j \in Ids :
       /\ main = "gather"
       /\ task[i] = "done" /\ fetch_calls[i] = 0
       /\ Updated \in DOMAIN processors[i]
       /\ FromIso(processors[i][Updated]) + 7 > today
       /\ task[j] = "fetching"

\* gather has returned or raised and the file is still the one of the start
\* of the run
GatherOver ==
    main \in {"print_table", "write_csv", "raised"} \/ (main = "done" /\ ~wrote)

\* a record that has no "Updated" date, or one older than 7 days on `day`
IsStale(processor, day) ==
    \/ Updated \notin DOMAIN processor
    \/ /\ IsIsoDate(processor[Updated])
       /\ FromIso(processor[Updated]) + 7 < day

\* C2: every identifier whose record has no "Updated" date, or one older
\* than 7 days, when the tasks are started has fetch_html called exactly once
\* in the run: never twice, and once gather is over (returned or raised) not
\* zero times, whatever the outcome of the other fetches.
C2_FetchedOnce ==
    /\ \A i \in Ids : fetch_calls[i] <= 1
    /\ (GatherOver /\ \E i \in Ids : fetch_calls[i] # 1)
       => LET before == Prefilled
          IN  \A i \in Ids :
                 IsStale(before[i], today - midnights) => fetch_calls[i] = 1

\* gather has raised for one identifier while a record with a date older
\* than 7 days has been fetched once
C2_Witness ==
    \E i, j \in Ids :
       /\ main = "raised" /\ task[j] = "failed"
       /\ fetch_calls[i] = 1
       /\ Updated \in DOMAIN Prefilled[i]
       /\ IsStale(Prefilled[i], today - midnights)

\* some task has merged a page in this run
SomeMerge == \E i \in Ids : IsContent(response_text[i])

\* the run is over, and no task has raised or been cancelled
RunOver ==
    \/ main = "done"
    \/ main = "raised" /\ \A i \in Ids : task[i] = "done"

\* C3: at the end of a run the changed flag is true if and only if some
\* identifier completed a merge of a page in the run, and the file is
\* written if and only if the flag is true.
C3_ChangedIffMerged ==
    RunOver => /\ changed_something <=> SomeMerge
               /\ wrote <=> changed_something

\* C4: a merge of a page sets every attribute whose extractor fails on the
\* page to the placeholder "-" and every other attribute to its extractor's
\* (stripped) value on the page, stamps "Updated" with the current date and
\* sets the changed flag; the task returns.
C4_AttributeIsolation ==
    [][\A i \in Ids :
          (task[i] = "fetching" /\ response_text'[i] # response_text[i]
           /\ IsContent(response_text'[i]))
          => LET page == response_text'[i].page
             IN  /\ \A n \in 1..Len(Attributes) :
                       LET key == Attributes[n]
                       IN  /\ key \in DOMAIN processors'[i]
                           /\ processors'[i][key] =
                                 IF key \in DOMAIN page THEN Strip(page[key])
                                 ELSE <<"-">>
                 /\ Updated \in DOMAIN processors'[i]
                 /\ processors'[i][Updated] = DateStr(today)
                 /\ changed_something'
                 /\ task'[i] = "done"]_vars

\* a merge of a page on which the first extractor fails and the second matches
C4_Witness ==
    \E i \in Ids :
       /\ task[i] = "done" /\ IsContent(response_text[i])
       /\ Name \notin DOMAIN response_text[i].page
       /\ SingleThread \in DOMAIN response_text[i].page
       /\ processors[i][Name] = <<"-">>
       /\ processors[i][SingleThread] = <<"3">>

\* print_table is about to run or has run, or write_csv has run
OutputStarted ==
    main \in {"print_table", "write_csv", "done"} \/ printed \/ wrote

\* C5: print_table and write_csv run only after every update_one task has
\* finished, and no record is changed by a task once the output has started.
C5_Barrier ==
    [][/\ OutputStarted' => \A i \in Ids : task'[i] = "done"
       /\ (OutputStarted /\ main' # "start") => processors' = processors]_vars

\* the table has been printed after a task merged a page and another skipped
C5_Witness ==
    /\ main = "write_csv" /\ printed
    /\ \E i, j \in Ids : IsContent(response_text[i]) /\ fetch_calls[j] = 0

\* C6: once all update tasks have completed the table is always printed,
\* whatever the records hold; the file is written only if the changed flag
\* is true, and only after the table has been printed.
C6_OutputOrdering ==
    /\ (RunOver \/ main = "write_csv") => printed
    /\ wrote => (printed /\ changed_something)

\* C7: when a fetch returns no content the task changes nothing (the flag
\* is set only by merges of pages) and the run is not aborted: it reaches
\* the output, the table is printed and the file is written if another
\* identifier changed.
C7_PayloadErrorIsolation ==
    (RunOver /\ \E i \in Ids : response_text[i] = None)
    => /\ changed_something <=> SomeMerge
       /\ printed
       /\ main = "done"
       /\ wrote <=> changed_something

\* C8: if the fetch of any identifier fails hard, the run is aborted: the
\* table is not printed and the file is not written in that run, also when
\* another identifier has merged a page and set the changed flag.
C8_FailFast ==
    (\E i \in Ids : task[i] = "failed")
    => /\ ~printed
       /\ ~wrote
       /\ main \in {"gather", "raised"}

\* gather has raised after another task merged a page
C8_Witness ==
    \E i, j \in Ids :
       /\ main = "raised"
       /\ task[i] = "failed"
       /\ task[j] = "done" /\ IsContent(response_text[j])
       /\ changed_something

\* the record of identifier i after all tasks have returned, as determined
\* by its record at the start of the run (prefilled) and its own response
\* alone ("Updated" is the date of some day up to today)
OwnResult(i, prefilled) ==
    LET before == Put(prefilled, Link, LinkBase \o i)
    IN  IF ~IsContent(response_text[i]) THEN processors[i] = before
        ELSE /\ DOMAIN processors[i] = (DOMAIN before) \cup {Name, SingleThread, Updated}
             /\ \A key \in {Name, SingleThread} :
                   processors[i][key] =
                      IF key \in DOMAIN response_text[i].page
                      THEN Strip(response_text[i].page[key]) ELSE <<"-">>
             /\ processors[i][Link] = before[Link]
             /\ \E d \in 1..today : processors[i][Updated] = DateStr(d)

\* C9: a step of the task of identifier i leaves the record of every other
\* identifier as it is; the changed flag is only ever set to true during a
\* run; and when all tasks have returned, each record is the one determined
\* by its own response and the flag is true exactly if some task merged,
\* whatever the order in which the fetches completed.
C9_TaskIsolation ==
    [][/\ \A i \in Ids :
             (task'[i] # task[i] /\ main' # "start")
             => \A j \in Ids \ {i} : processors'[j] = processors[j]
       /\ (changed_something /\ main' # "start") => changed_something'
       /\ main = "print_table"
          => /\ LET prefilled == Prefilled
                IN  \A i \in Ids : OwnResult(i, prefilled[i])
             /\ changed_something <=> SomeMerge]_vars

\* both tasks fetched, the second identifier's fetch completed first, and
\* gather has returned
C9_Witness ==
    /\ main = "print_table"
    /\ \A i \in Ids : IsContent(response_text[i])
    /\ processors[IdSeq[1]][Updated] # processors[IdSeq[2]][Updated]
    /\ FromIso(processors[IdSeq[2]][Updated]) < FromIso(processors[IdSeq[1]][Updated])

\* C10: after write_csv, prefill_with_csv on a fresh record store seeded
\* with any of the identifiers reproduces every persisted attribute value of
\* every seeded identifier exactly (a value the record does not have is
\* persisted as the empty string), and creates no record for an identifier
\* that is not seeded.
C10_RoundTrip ==
    (main = "done" /\ wrote)
    => \A seeded \in SUBSET Ids :
          LET r == prefill_with_csv(file, [i \in seeded |-> Seed[i]], LinkBase)
          IN  /\ r.ok
              /\ DOMAIN r.processors = seeded
              /\ \A i \in seeded : \A n \in 1..Len(Header) :
                    /\ Header[n] \in DOMAIN r.processors[i]
                    /\ r.processors[i][Header[n]] =
                          IF Header[n] \in DOMAIN processors[i]
                          THEN processors[i][Header[n]] ELSE <<>>

\* C11: a name mismatch is not fatal.  When the name extracted from the
\* fetched page differs from the name the record holds before the merge, the
\* merge still sets every registered attribute (the name included) from the
\* page, "Updated" is stamped with the current date, the changed flag is set
\* and the task returns instead of raising.
C11_NameMismatch ==
    [][\A i \in Ids :
          (/\ task[i] = "fetching" /\ response_text'[i] # response_text[i]
           /\ IsContent(response_text'[i])
           /\ processors[i][Name] #
                 (IF Name \in DOMAIN response_text'[i].page
                  THEN Strip(response_text'[i].page[Name]) ELSE <<"-">>))
          => /\ \A n \in 1..Len(Attributes) :
                   /\ Attributes[n] \in DOMAIN processors'[i]
                   /\ processors'[i][Attributes[n]] =
                         IF Attributes[n] \in DOMAIN response_text'[i].page
                         THEN Strip(response_text'[i].page[Attributes[n]])
                         ELSE <<"-">>
             /\ Updated \in DOMAIN processors'[i]
             /\ processors'[i][Updated] = DateStr(today)
             /\ changed_something'
             /\ task'[i] = "done"
             /\ main' = main]_vars

\* in the first run the record seeded with the name "b" has merged a page
\* whose name is "a"
C11_Witness ==
    /\ file = NoFile
    /\ main = "gather"
    /\ task[IdSeq[2]] = "done"
    /\ IsContent(response_text[IdSeq[2]])
    /\ Seed[IdSeq[2]][Name] = <<"b">>
    /\ processors[IdSeq[2]][Name] = <<"a">>
    /\ processors[IdSeq[2]][Updated] = DateStr(today)
    /\ changed_something

\* the text of the file holds the line that writer.writerow writes for fields
HasLine(text, fields) ==
    LET line == WriteRow(fields)
    IN  \E k \in 1..(Len(text) - Len(line) + 1) :
           /\ SubSeq(text, k, k + Len(line) - 1) = line
           /\ (k = 1 \/ text[k - 1] = LF)

\* C12: after a run in which the fetch of an identifier has returned a page
\* and no task has failed hard, the file holds a row for that identifier
\* with Link = link_base + identifier, every registered attribute equal to
\* its extractor's value on that page ("-" where the extractor fails) and
\* Updated = the date of the run (a day on which its tasks ran).
C12_PersistedRow ==
    \A i \in Ids :
       (RunOver /\ IsContent(response_text[i]))
       => /\ file # NoFile
          /\ \E d \in (today - midnights)..today :
                HasLine(file,
                        << IF Name \in DOMAIN response_text[i].page
                           THEN Strip(response_text[i].page[Name]) ELSE <<"-">>,
                           IF SingleThread \in DOMAIN response_text[i].page
                           THEN Strip(response_text[i].page[SingleThread]) ELSE <<"-">>,
                           LinkBase \o i,
                           DateStr(d) >>)

\* the largest element of a non-empty set of numbers
Last(S) == CHOOSE n \in S : \A m \in S : m <= n

\* the table prefill_with_csv reads: its header and the rows after it
TableOf(text) ==
    LET rows == csv_reader(text)
    IN  [header |-> Head(rows), rows |-> Tail(rows),
         link_index |-> IndexOf(Head(rows), Link)]

\* C13: prefill_with_csv keeps the set of identifiers: it never adds or
\* removes a record.  A record whose identifier is the Link value, without
\* the link_base prefix, of some row gets every column of the table, each
\* with the value of the last such row, and keeps its other keys; a record
\* with no such row is left exactly as seeded.
C13_PrefillFrame ==
    [][(main = "start" /\ main' = "gather")
       => /\ DOMAIN processors' = DOMAIN processors
          /\ file = NoFile => processors' = processors
          /\ file # NoFile =>
                LET table == TableOf(file)
                    columns == {table.header[c] : c \in 1..Len(table.header)}
                IN  \A i \in DOMAIN processors :
                       LET matching ==
                             {n \in 1..Len(table.rows) :
                                 DropPrefix(table.rows[n][table.link_index],
                                            Len(LinkBase)) = i}
                       IN  IF matching = {} THEN processors'[i] = processors[i]
                           ELSE /\ DOMAIN processors'[i] =
                                      (DOMAIN processors[i]) \cup columns
                                /\ \A c \in 1..Len(table.header) :
                                      processors'[i][table.header[c]] =
                                         table.rows[Last(matching)][c]
                                /\ \A k \in (DOMAIN processors[i]) \ columns :
                                      processors'[i][k] = processors[i][k]]_vars

\* prefill has read a table with two different rows of the first identifier
\* and a row of an identifier that is not seeded; the record of the first
\* identifier has the name of the second row and the record of the second
\* identifier is as seeded
C13_Witness ==
    /\ main = "gather"
    /\ DOMAIN processors = Ids
    /\ processors[IdSeq[2]] = Seed[IdSeq[2]]
    /\ file # NoFile
    /\ LET table == TableOf(file)
       IN  /\ table.header = <<Name, Link, Updated>>
           /\ Len(table.rows) = 3
           /\ table.rows[1][2] = LinkBase \o IdSeq[1]
           /\ table.rows[2][2] = LinkBase \o <<"3">>
           /\ table.rows[3][2] = LinkBase \o IdSeq[1]
           /\ table.rows[1][1] # table.rows[3][1]
           /\ processors[IdSeq[1]][Name] = table.rows[3][1]
           /\ processors[IdSeq[1]][Name] # Seed[IdSeq[1]][Name]

\* the text of a file that holds no table prefill_with_csv can read: no
\* header row, or a header without the "Link" column
Unreadable(text) ==
    LET rows == csv_reader(text)
    IN  rows = <<>> \/ IndexOf(Head(rows), Link) = 0

\* C14: a read failure of the persisted table is not fatal.  Once
\* prefill_with_csv is over and before any task has run, the run has gone on
\* to the crawl and has not been aborted, whatever the file; and if the file
\* is absent or cannot be read, the processors are exactly as seeded.
C14_ReadFailureNonFatal ==
    (main # "start" /\ \A i \in Ids : task[i] = "new")
    => /\ main = "gather"
       /\ (file = NoFile \/ Unreadable(file)) => processors \in SeedStores

\* C15: the staleness boundary.  When the task of an identifier makes its
\* staleness check, a record whose "Updated" date is exactly 7 days before
\* the current date is not skipped: fetch_html is called for it; a record
\* whose "Updated" date is 6 days or fewer before the current date, the
\* current date itself or a later date is skipped: the task returns without
\* a call.
C15_StalenessBoundary ==
    [][\A i \in Ids :
          (/\ main = "gather" /\ task[i] = "new" /\ task'[i] # "new"
           /\ Updated \in DOMAIN processors[i]
           /\ IsIsoDate(processors[i][Updated]))
          => LET updated == FromIso(processors[i][Updated])
             IN  /\ updated = today - 7
                    => /\ task'[i] = "fetching"
                       /\ fetch_calls'[i] = fetch_calls[i] + 1
                 /\ updated >= today - 6
                    => /\ task'[i] = "done"
                       /\ fetch_calls'[i] = fetch_calls[i]]_vars

\* in one run the record updated exactly 7 days ago is being fetched and the
\* record updated 6 days ago has been skipped
C15_Witness ==
    \E i, j \in Ids :
       /\ main = "gather" /\ midnights = 0
       /\ task[i] = "fetching" /\ fetch_calls[i] = 1
       /\ Updated \in DOMAIN processors[i]
       /\ FromIso(processors[i][Updated]) = today - 7
       /\ task[j] = "done" /\ fetch_calls[j] = 0
       /\ Updated \in DOMAIN processors[j]
       /\ FromIso(processors[j][Updated]) = today - 6

\* C16: the frame of a skipped identifier.  The step in which the task of an
\* identifier skips it as fresh leaves its record as it was at the start of
\* the run (after prefill) with Link set to link_base + identifier, and
\* leaves the changed flag as it is; afterwards, until the end of the run,
\* no step changes the record: no attribute, and in particular not
\* "Updated".
C16_SkipFrame ==
    [][\A i \in Ids :
          /\ (main = "gather" /\ task[i] = "new" /\ task'[i] = "done")
             => /\ processors'[i] = Put(Prefilled[i], Link, LinkBase \o i)
                /\ changed_something' = changed_something
          /\ (task[i] = "done" /\ fetch_calls[i] = 0 /\ main' # "start")
             => processors'[i] = processors[i]]_vars

\* a run has ended with the file written after one identifier was merged
\* and the other, updated on an earlier day, was skipped
C16_Witness ==
    \E i, j \in Ids :
       /\ main = "done" /\ wrote
       /\ task[i] = "done" /\ fetch_calls[i] = 0
       /\ processors[i][Updated] # DateStr(today)
       /\ processors[i][Link] = LinkBase \o i
       /\ IsContent(response_text[j])
       /\ processors[j][Updated] = DateStr(today)

\* every seeded identifier has in this record store an "Updated" date of the
\* day `day`, or of one of the MaxMidnights days before it: the store that
\* prefill gives on the day a run that merged every identifier has ended
AllMergedBy(prefilled, day) ==
    \A i \in Ids :
       /\ Updated \in DOMAIN prefilled[i]
       /\ \E d \in (day - MaxMidnights)..day :
             d >= 1 /\ prefilled[i][Updated] = DateStr(d)

\* no fetch_html call has been made, the changed flag is false and the file
\* has not been written in this run
Quiet ==
    /\ \A i \in Ids : fetch_calls[i] = 0
    /\ ~changed_something
    /\ ~wrote

\* C17: cross-run idempotence.  In a run started, with the same seeds, on the
\* date on which a run that merged every seeded identifier and wrote the file
\* has ended, no step calls fetch_html for any identifier, sets the changed
\* flag or writes the file: the run is quiet when the crawl starts, and no
\* step of it ends the quiet or changes the file.
C17_Idempotence ==
    [][/\ (main = "start" /\ main' # "start") => Quiet'
       /\ (/\ main # "start" /\ main' # "start" /\ Quiet
           /\ (~Quiet' \/ file' # file))
          => ~AllMergedBy(Prefilled, today - midnights)]_vars

\* such a second run has ended: nothing fetched, the flag false, the file of
\* the first run still there
C17_Witness ==
    /\ main = "done"
    /\ Quiet
    /\ printed
    /\ file # NoFile
    /\ AllMergedBy(Prefilled, today - midnights)

\* the rows of the file after the header row, one per seeded identifier in
\* the order of the seeds, each with one field per column of the header
WellFormedRows(rows) ==
    /\ Len(rows) = 1 + Len(IdSeq)
    /\ rows[1] = Header
    /\ \A n \in 2..Len(rows) : Len(rows[n]) = Len(Header)

\* C18 as stated: every row of every file the program writes has a non-empty
\* value for every registered attribute, for Link and for "Updated", so that
\* no record ever holds an empty "Updated" value.
C18_RowsComplete ==
    /\ \A i \in Ids : Updated \in DOMAIN processors[i] => processors[i][Updated] # <<>>
    /\ wrote => LET rows == csv_reader(file)
                IN  /\ WellFormedRows(rows)
                    /\ \A n \in 2..Len(rows) : \A c \in 1..Len(Header) :
                          rows[n][c] # <<>>

\* C18 as amended: every row of every file the program writes has a field
\* for every registered attribute, which is empty only where the extractor
\* of a page merged in this run matched a blank text or where the record was
\* not merged in this run (the field is then the one of the file before); it
\* has Link = link_base + identifier and a well-formed date in "Updated"; and
\* no record ever holds an "Updated" value that is not a well-formed date.
C18_RowsDated ==
    /\ \A i \in Ids : Updated \in DOMAIN processors[i] => IsIsoDate(processors[i][Updated])
    /\ wrote => LET rows == csv_reader(file)
                IN  /\ WellFormedRows(rows)
                    /\ \A n \in 1..Len(IdSeq) :
                          LET row == rows[n + 1]
                              i == IdSeq[n]
                          IN  /\ row[IndexOf(Header, Link)] = LinkBase \o i
                              /\ IsIsoDate(row[IndexOf(Header, Updated)])
                              /\ \A c \in 1..Len(Attributes) :
                                    (row[c] = <<>> /\ IsContent(response_text[i]))
                                    => /\ Attributes[c] \in DOMAIN response_text[i].page
                                       /\ Strip(response_text[i].page[Attributes[c]]) = <<>>

\* a file has been written with a row whose name is empty, merged in this
\* run from a page with an empty name, and a later run has prefilled a record
\* from a row of an earlier run
C18_Witness ==
    \E i, j \in Ids :
       /\ main = "done" /\ wrote
       /\ IsContent(response_text[i])
       /\ processors[i][Name] = <<>>
       /\ fetch_calls[j] = 0
       /\ IsIsoDate(processors[j][Updated])

====
